---- MODULE Spec2Model ----
(***************************************************************************)
(* A model of the two gallery scripts of pynwb:                            *)
(*   docs/gallery/general/linking_data.py  (modular storage, links)        *)
(*   docs/gallery/general/read_basics.py   (streaming read, exploration)   *)
(* A behaviour is one run of one of the two scripts.  The scripts' own     *)
(* statements are translated line by line; the library they call           *)
(* (NWBHDF5IO, NWBFile, TimeSeries, H5DataIO, get_manager) is not part of  *)
(* the two files and is modelled from its documented behaviour.            *)
(***************************************************************************)
EXTENDS Integers, Sequences, FiniteSets, TLC

\* ------------------------------------------------------------------ bounds
\* linking_data.py builds data = arange(1000).reshape((100, 10)) and
\* timestamps = arange(100); the model keeps the shapes small.
NumSamples == 3
NumChannels == 2
\* read_basics.py streams a file with 200 stimulus frames; the model's file
\* has just enough frames for frame_index to exist.
NumFrames == 33
\* A frame shorter than frame_index, for the files that are too short.
ShortFrames == 2
\* Spike trains of the remote file: at most MaxSpikes spike times in
\* 0..MaxSpikeTime each (whole seconds).
MaxSpikes == 2
MaxSpikeTime == 4

\* --------------------------------------------------------------- constants
filename1 == "external1_example.nwb"
filename2 == "external2_example.nwb"
filename3 == "external_linkcontainer_example.nwb"
filename4 == "external_linkdataset_example.nwb"
Filenames == {filename1, filename2, filename3, filename4}

Names == {"test_timeseries1", "test_timeseries2", "test_timeseries4",
          "test_timeseries5"}

\* data = np.arange(1000).reshape((100, 10))
data ==
  [kind |-> "array",
   values |-> [i \in 1..NumSamples |->
                 [j \in 1..NumChannels |-> (i - 1) * NumChannels + (j - 1)]]]

\* timestamps = np.arange(100)
timestamps ==
  [kind |-> "array", values |-> [i \in 1..NumSamples |-> i - 1]]

\* ----------------------------------------------------------- python values
Unbound == [kind |-> "unbound"]
NoOrigin == [kind |-> "none"]
NoError == [kind |-> "none"]
Invalid == [kind |-> "invalid"]
EmptyFile == [kind |-> "empty"]
NoAcquisition == [n \in {} |-> Unbound]

\* NWBFile(identifier=...): a session container with no child records yet.
NWBFile(identifier) ==
  [kind |-> "NWBFile", identifier |-> identifier, acquisition |-> NoAcquisition]

\* TimeSeries(name=..., data=..., timestamps=...): built in memory, so it
\* has no file of origin.
TimeSeries(name, d, ts) ==
  [kind |-> "TimeSeries", name |-> name, data |-> d, timestamps |-> ts,
   origin |-> NoOrigin]

\* H5DataIO(data=..., link_data=...): the per-dataset wrapper.
H5DataIO(d, link_data) ==
  [kind |-> "H5DataIO", data |-> d, link_data |-> link_data]

\* nwbfile.add_acquisition(ts)
add_acquisition(f, ts) ==
  [f EXCEPT !.acquisition = (ts.name :> ts) @@ @]

\* nwbfile.get_acquisition(name): the record, or a KeyError.
get_acquisition(f, name) ==
  IF name \in DOMAIN f.acquisition
  THEN f.acquisition[name]
  ELSE [kind |-> "KeyError", key |-> name]

\* NWBHDF5IO(path) without a mode opens the file for reading.
DefaultMode == "r"

\* io.write(nwbfile) without link_data links h5py datasets of other files.
DefaultLinkData == TRUE

\* ------------------------------------------------------------------- state
VARIABLES
  script,      \* which script this run executes: "linking" or "read_basics"
  pc,          \* the next statement of the script (its line), "done", "failed"
  err,         \* the error the run ended with, NoError while it runs
  dir,         \* file system: path -> inode number, 0 where no file is
  disk,        \* inode number -> contents of the file
  perm,        \* inode number -> whether the file may be read
  handles,     \* every NWBHDF5IO object created so far, in creation order
  nManagers,   \* number of BuildManager instances created so far
  io, io1, io2, io3, io4,          \* linking_data.py: handle variables
  manager,                         \* linking_data.py: manager = get_manager()
  nwbfile1, nwbfile2, nwbfile3, nwbfile4,
  test_ts1, test_ts2, test_ts4, test_ts5,
  timeseries_1, timeseries_2, timeseries_1_data,
  envTouched,  \* history: <<the paths another program has moved away or
               \* locked, the paths it has overwritten in place>>
  remote,      \* read_basics.py: the asset stored in the archive
  network,     \* whether the archive can be reached
  client,      \* the DandiAPIClient session: "unbound", "open", "closed"
  s3_path,     \* the asset's URL
  nwbfile,     \* nwbfile = io.read()
  stimulus_presentation, all_stimulus_data, image,
  stim_on_times, unit, unit_spike_times, trial_spikes,
  trials_df, stim_on_times_landscapes, shown,
  readLog      \* every read of dataset values from the remote file, in order

fsvars == <<dir, disk, perm>>
iovars == <<handles, nManagers, io, io1, io2, io3, io4, manager>>
filevars == <<nwbfile1, nwbfile2, nwbfile3, nwbfile4>>
tsvars == <<test_ts1, test_ts2, test_ts4, test_ts5,
            timeseries_1, timeseries_2, timeseries_1_data>>
linkvars == <<iovars, filevars, tsvars>>
readvars == <<remote, network, client, s3_path, nwbfile, stimulus_presentation,
              all_stimulus_data, image, stim_on_times, unit, unit_spike_times,
              trial_spikes, trials_df, stim_on_times_landscapes, shown, readLog>>

\* ------------------------------------------------- the library: file system
Exists(path) == dir[path] # 0
Readable(path) == Exists(path) /\ perm[dir[path]]

\* The stored record `obj` of the file at `path`, if the file can be read now.
StoredObject(path, obj) ==
  IF Readable(path) /\ disk[dir[path]].kind = "nwb"
     /\ obj \in DOMAIN disk[dir[path]].acquisition
  THEN disk[dir[path]].acquisition[obj]
  ELSE Invalid

\* The h5py dataset object for field `field` of record `obj` stored in the
\* file at `path` (inode `inode`): a handle, no values.  A stored external
\* link is followed by path, now.
DatasetHandle(sd, path, inode, obj, field) ==
  IF sd.kind = "array"
  THEN [kind |-> "dataset", file |-> path, inode |-> inode, obj |-> obj,
        field |-> field]
  ELSE IF sd.kind = "extlink" /\ StoredObject(sd.file, sd.obj).kind = "group"
          /\ StoredObject(sd.file, sd.obj)[sd.field].kind = "array"
       THEN [kind |-> "dataset", file |-> sd.file, inode |-> dir[sd.file],
             obj |-> sd.obj, field |-> sd.field]
       ELSE Invalid

\* The values a dataset handle yields when it is read in full.
ReadDataset(d) ==
  IF d.kind = "dataset" /\ disk[d.inode].kind = "nwb"
     /\ d.obj \in DOMAIN disk[d.inode].acquisition
     /\ disk[d.inode].acquisition[d.obj].kind = "group"
     /\ disk[d.inode].acquisition[d.obj][d.field].kind = "array"
  THEN disk[d.inode].acquisition[d.obj][d.field].values
  ELSE <<>>

\* The values of a record's data or timestamps, in memory or through a handle.
ValuesOf(d) ==
  IF d.kind = "array" THEN d.values
  ELSE IF d.kind = "H5DataIO"
       THEN (IF d.data.kind = "array" THEN d.data.values
             ELSE ReadDataset(d.data))
       ELSE ReadDataset(d)

\* The container the build manager `mgr` constructs for a stored group.
ContainerFromGroup(g, path, inode, mgr) ==
  [kind |-> "TimeSeries", name |-> g.name,
   data |-> DatasetHandle(g.data, path, inode, g.name, "data"),
   timestamps |-> DatasetHandle(g.timestamps, path, inode, g.name, "timestamps"),
   origin |-> [kind |-> "file", path |-> path, manager |-> mgr]]

\* What reading a stored record yields: the container for a group; for an
\* external link the container of the target file, looked up by path at the
\* time of the read, or Invalid when the target cannot be reached.
ResolveObject(so, path, inode, mgr) ==
  IF so.kind = "group"
  THEN ContainerFromGroup(so, path, inode, mgr)
  ELSE IF so.kind = "extlink" /\ StoredObject(so.file, so.obj).kind = "group"
       THEN ContainerFromGroup(StoredObject(so.file, so.obj), so.file,
                               dir[so.file], mgr)
       ELSE Invalid

\* io.read(): the NWBFile built from the handle's file; records whose link
\* cannot be resolved are not part of it.
IORead(h) ==
  LET c == disk[h.inode]
      ok == {n \in DOMAIN c.acquisition :
               ResolveObject(c.acquisition[n], h.path, h.inode, h.manager).kind
                 # "invalid"}
  IN [kind |-> "NWBFile", identifier |-> c.identifier,
      acquisition |-> [n \in ok |->
         ResolveObject(c.acquisition[n], h.path, h.inode, h.manager)]]

\* How one dataset is stored on write: an in-memory array is stored as it
\* is; an h5py dataset of another file is stored as an external link when
\* link_data holds and copied otherwise.
StoreRaw(d, h, link_data) ==
  IF d.kind = "array" THEN d
  ELSE IF link_data
       THEN [kind |-> (IF d.file # h.path THEN "extlink" ELSE "softlink"),
             file |-> d.file, obj |-> d.obj, field |-> d.field]
       ELSE [kind |-> "array", values |-> ReadDataset(d)]

\* The H5DataIO wrapper's own link_data overrides the default given to write.
StoreData(d, h, link_data) ==
  IF d.kind = "H5DataIO"
  THEN StoreRaw(d.data, h, d.link_data)
  ELSE StoreRaw(d, h, link_data)

\* How one record is stored on write: a container the writer's manager knows
\* to have been read from another file becomes an external link to that file.
StoreObject(c, h, link_data) ==
  IF c.origin.kind = "file" /\ c.origin.manager = h.manager
     /\ c.origin.path # h.path
  THEN [kind |-> "extlink", file |-> c.origin.path, obj |-> c.name]
  ELSE [kind |-> "group", name |-> c.name,
        data |-> StoreData(c.data, h, link_data),
        timestamps |-> StoreData(c.timestamps, h, link_data)]

\* io.write(nwbfile, link_data=...): the contents the handle's file gets.
IOWrite(h, f, link_data) ==
  [kind |-> "nwb", identifier |-> f.identifier,
   acquisition |-> [n \in DOMAIN f.acquisition |->
                      StoreObject(f.acquisition[n], h, link_data)]]

\* ----------------------------------------------- the library: NWBHDF5IO
\* The inode a handle on `path` gets: mode "w" creates the file (or truncates
\* the one that is there), the reading mode takes the file that is there.
InodeFor(path, mode) ==
  IF Exists(path) THEN dir[path] ELSE Len(disk) + 1

\* A new NWBHDF5IO object.  Without a manager argument (mgr = 0) the library
\* makes a build manager of its own for the handle.
NewHandle(path, mode, mgr) ==
  [path |-> path, mode |-> mode, open |-> TRUE,
   inode |-> InodeFor(path, mode),
   manager |-> IF mgr = 0 THEN nManagers + 1 ELSE mgr]

\* Whether NWBHDF5IO(path, mode) can open the file.
CanOpen(path, mode) == mode = "w" \/ Readable(path)

\* The run ends at the current statement with the library's error.
Fail(e) ==
  /\ pc' = "failed"
  /\ err' = [kind |-> e, at |-> pc]

\* NWBHDF5IO(path, mode, manager=mgr): the effect on the handles and on the
\* file system; the caller binds its variable to Len(handles').
Construct(path, mode, mgr) ==
  /\ handles' = Append(handles, NewHandle(path, mode, mgr))
  /\ nManagers' = IF mgr = 0 THEN nManagers + 1 ELSE nManagers
  /\ IF mode = "w"
     THEN /\ dir' = [dir EXCEPT ![path] = InodeFor(path, mode)]
          /\ disk' = IF Exists(path)
                     THEN [disk EXCEPT ![dir[path]] = EmptyFile]
                     ELSE Append(disk, EmptyFile)
          /\ perm' = IF Exists(path) THEN perm ELSE Append(perm, TRUE)
     ELSE UNCHANGED fsvars

\* io.write(f, link_data=...) through handle number k.
WriteThrough(k, f, link_data) ==
  /\ disk' = [disk EXCEPT ![handles[k].inode] = IOWrite(handles[k], f, link_data)]
  /\ UNCHANGED <<dir, perm>>

\* io.close() of handle number k.
CloseHandle(k) ==
  handles' = [handles EXCEPT ![k].open = FALSE]

\* Whether io.read() through handle k finds a well-formed file.
CanRead(k) == handles[k].open /\ disk[handles[k].inode].kind = "nwb"

\* ------------------------------------------------------- linking_data.py
Linking(l) == script = "linking" /\ pc = l

\* lines 75-86: nwbfile1, test_ts1, add_acquisition
CreateFile1 ==
  /\ Linking("L75")
  /\ test_ts1' = TimeSeries("test_timeseries1", data, timestamps)
  /\ nwbfile1' = add_acquisition(NWBFile("NWBE1"), test_ts1')
  /\ pc' = "L88"
  /\ UNCHANGED <<script, err, fsvars, iovars, nwbfile2, nwbfile3, nwbfile4,
                 test_ts2, test_ts4, test_ts5, timeseries_1, timeseries_2,
                 timeseries_1_data, envTouched, readvars>>

\* line 88: io = NWBHDF5IO(filename1, 'w')
OpenWrite1 ==
  /\ Linking("L88")
  /\ Construct(filename1, "w", 0)
  /\ io' = Len(handles')
  /\ pc' = "L89"
  /\ UNCHANGED <<script, err, io1, io2, io3, io4, manager, filevars, tsvars, envTouched, readvars>>

\* line 89: io.write(nwbfile1)
Write1 ==
  /\ Linking("L89")
  /\ WriteThrough(io, nwbfile1, DefaultLinkData)
  /\ pc' = "L90"
  /\ UNCHANGED <<script, err, linkvars, envTouched, readvars>>

\* line 90 left out: the writing handle of file1 stays open
Close1_Skipped ==
  /\ Linking("L90")
  /\ pc' = "L93"
  /\ UNCHANGED <<script, err, fsvars, iovars, filevars, tsvars,
                 envTouched, readvars>>

\* line 90: io.close()
Close1 ==
  /\ Linking("L90")
  /\ CloseHandle(io)
  /\ pc' = "L93"
  /\ UNCHANGED <<script, err, fsvars, nManagers, io, io1, io2, io3, io4,
                 manager, filevars, tsvars, envTouched, readvars>>

\* lines 93-104: nwbfile2, test_ts2, add_acquisition
CreateFile2 ==
  /\ Linking("L93")
  /\ test_ts2' = TimeSeries("test_timeseries2", data, timestamps)
  /\ nwbfile2' = add_acquisition(NWBFile("NWBE2"), test_ts2')
  /\ pc' = "L106"
  /\ UNCHANGED <<script, err, fsvars, iovars, nwbfile1, nwbfile3, nwbfile4,
                 test_ts1, test_ts4, test_ts5, timeseries_1, timeseries_2,
                 timeseries_1_data, envTouched, readvars>>

\* line 106: io = NWBHDF5IO(filename2, 'w')
OpenWrite2 ==
  /\ Linking("L106")
  /\ Construct(filename2, "w", 0)
  /\ io' = Len(handles')
  /\ pc' = "L107"
  /\ UNCHANGED <<script, err, io1, io2, io3, io4, manager, filevars, tsvars, envTouched, readvars>>

\* line 107: io.write(nwbfile2)
Write2 ==
  /\ Linking("L107")
  /\ WriteThrough(io, nwbfile2, DefaultLinkData)
  /\ pc' = "L108"
  /\ UNCHANGED <<script, err, linkvars, envTouched, readvars>>

\* line 108: io.close()
Close2 ==
  /\ Linking("L108")
  /\ CloseHandle(io)
  /\ pc' = "L121"
  /\ UNCHANGED <<script, err, fsvars, nManagers, io, io1, io2, io3, io4,
                 manager, filevars, tsvars, envTouched, readvars>>

\* lines 121-125: nwbfile4 = NWBFile(...)
CreateFile4 ==
  /\ Linking("L121")
  /\ nwbfile4' = NWBFile("NWBE4")
  /\ pc' = "L135"
  /\ UNCHANGED <<script, err, fsvars, iovars, nwbfile1, nwbfile2, nwbfile3,
                 tsvars, envTouched, readvars>>

\* line 135 with the wrong file name: io1 = NWBHDF5IO(filename2)
OpenRead1_WrongFile ==
  /\ Linking("L135")
  /\ IF CanOpen(filename2, DefaultMode)
     THEN /\ Construct(filename2, DefaultMode, 0)
          /\ io1' = Len(handles')
          /\ pc' = "L136"
          /\ UNCHANGED err
     ELSE /\ Fail("OSError")
          /\ UNCHANGED <<fsvars, handles, nManagers, io1>>
  /\ UNCHANGED <<script, io, io2, io3, io4, manager, filevars, tsvars,
                 envTouched, readvars>>

\* line 135: io1 = NWBHDF5IO(filename1)
OpenRead1 ==
  /\ Linking("L135")
  /\ IF CanOpen(filename1, DefaultMode)
     THEN /\ Construct(filename1, DefaultMode, 0)
          /\ io1' = Len(handles')
          /\ pc' = "L136"
          /\ UNCHANGED err
     ELSE /\ Fail("OSError")
          /\ UNCHANGED <<fsvars, handles, nManagers, io1>>
  /\ UNCHANGED <<script, io, io2, io3, io4, manager, filevars, tsvars, envTouched, readvars>>

\* line 136: nwbfile1 = io1.read()
Read1 ==
  /\ Linking("L136")
  /\ IF CanRead(io1)
     THEN /\ nwbfile1' = IORead(handles[io1])
          /\ pc' = "L137"
          /\ UNCHANGED err
     ELSE /\ Fail("MalformedFile")
          /\ UNCHANGED nwbfile1
  /\ UNCHANGED <<script, fsvars, iovars, nwbfile2, nwbfile3, nwbfile4, tsvars,
                 envTouched, readvars>>

\* line 137: timeseries_1 = nwbfile1.get_acquisition('test_timeseries1')
GetTimeseries1 ==
  /\ Linking("L137")
  /\ IF get_acquisition(nwbfile1, "test_timeseries1").kind # "KeyError"
     THEN /\ timeseries_1' = get_acquisition(nwbfile1, "test_timeseries1")
          /\ pc' = "L138"
          /\ UNCHANGED err
     ELSE /\ Fail("KeyError")
          /\ UNCHANGED timeseries_1
  /\ UNCHANGED <<script, fsvars, iovars, filevars, test_ts1, test_ts2, test_ts4,
                 test_ts5, timeseries_2, timeseries_1_data, envTouched, readvars>>

\* line 138: timeseries_1_data = timeseries_1.data
GetData1 ==
  /\ Linking("L138")
  /\ timeseries_1_data' = timeseries_1.data
  /\ pc' = "L147"
  /\ UNCHANGED <<script, err, fsvars, iovars, filevars, test_ts1, test_ts2,
                 test_ts4, test_ts5, timeseries_1, timeseries_2, envTouched, readvars>>

\* lines 147-152: test_ts4 = TimeSeries(data=timeseries_1_data, ...), added
CreateTs4 ==
  /\ Linking("L147")
  /\ test_ts4' = TimeSeries("test_timeseries4", timeseries_1_data, timestamps)
  /\ nwbfile4' = add_acquisition(nwbfile4, test_ts4')
  /\ pc' = "L164"
  /\ UNCHANGED <<script, err, fsvars, iovars, nwbfile1, nwbfile2, nwbfile3,
                 test_ts1, test_ts2, test_ts5, timeseries_1, timeseries_2,
                 timeseries_1_data, envTouched, readvars>>

\* lines 164-170: test_ts5 = TimeSeries(data=H5DataIO(..., link_data=True)), added
CreateTs5 ==
  /\ Linking("L164")
  /\ test_ts5' = TimeSeries("test_timeseries5",
                            H5DataIO(timeseries_1_data, TRUE), timestamps)
  /\ nwbfile4' = add_acquisition(nwbfile4, test_ts5')
  /\ pc' = "L178"
  /\ UNCHANGED <<script, err, fsvars, iovars, nwbfile1, nwbfile2, nwbfile3,
                 test_ts1, test_ts2, test_ts4, timeseries_1, timeseries_2,
                 timeseries_1_data, envTouched, readvars>>

\* line 178 with the wrong file name: io4 = NWBHDF5IO(filename1, 'w')
OpenWrite4_OverSource ==
  /\ Linking("L178")
  /\ Construct(filename1, "w", 0)
  /\ io4' = Len(handles')
  /\ pc' = "L179"
  /\ UNCHANGED <<script, err, io, io1, io2, io3, manager, filevars, tsvars,
                 envTouched, readvars>>

\* line 178: io4 = NWBHDF5IO(filename4, 'w')
OpenWrite4 ==
  /\ Linking("L178")
  /\ Construct(filename4, "w", 0)
  /\ io4' = Len(handles')
  /\ pc' = "L179"
  /\ UNCHANGED <<script, err, io, io1, io2, io3, manager, filevars, tsvars,
                 envTouched, readvars>>

\* lines 179-180 asking for copies: io4.write(nwbfile4, link_data=False)
Write4_Copy ==
  /\ Linking("L179")
  /\ WriteThrough(io4, nwbfile4, FALSE)
  /\ pc' = "L181"
  /\ UNCHANGED <<script, err, linkvars, envTouched, readvars>>

\* lines 179-180: io4.write(nwbfile4, link_data=True)
Write4 ==
  /\ Linking("L179")
  /\ WriteThrough(io4, nwbfile4, TRUE)
  /\ pc' = "L181"
  /\ UNCHANGED <<script, err, linkvars, envTouched, readvars>>

\* line 181: io4.close()
Close4 ==
  /\ Linking("L181")
  /\ CloseHandle(io4)
  /\ pc' = "L203"
  /\ UNCHANGED <<script, err, fsvars, nManagers, io, io1, io2, io3, io4,
                 manager, filevars, tsvars, envTouched, readvars>>

\* line 203: manager = get_manager()
GetManager ==
  /\ Linking("L203")
  /\ manager' = nManagers + 1
  /\ nManagers' = nManagers + 1
  /\ pc' = "L217"
  /\ UNCHANGED <<script, err, fsvars, handles, io, io1, io2, io3, io4,
                 filevars, tsvars, envTouched, readvars>>

\* line 217: io1 = NWBHDF5IO(filename1, manager=manager)
OpenRead1Manager ==
  /\ Linking("L217")
  /\ IF CanOpen(filename1, DefaultMode)
     THEN /\ Construct(filename1, DefaultMode, manager)
          /\ io1' = Len(handles')
          /\ pc' = "L218"
          /\ UNCHANGED err
     ELSE /\ Fail("OSError")
          /\ UNCHANGED <<fsvars, handles, nManagers, io1>>
  /\ UNCHANGED <<script, io, io2, io3, io4, manager, filevars, tsvars, envTouched, readvars>>

\* line 218: nwbfile1 = io1.read()
Read1Manager ==
  /\ Linking("L218")
  /\ IF CanRead(io1)
     THEN /\ nwbfile1' = IORead(handles[io1])
          /\ pc' = "L219"
          /\ UNCHANGED err
     ELSE /\ Fail("MalformedFile")
          /\ UNCHANGED nwbfile1
  /\ UNCHANGED <<script, fsvars, iovars, nwbfile2, nwbfile3, nwbfile4, tsvars,
                 envTouched, readvars>>

\* line 219: timeseries_1 = nwbfile1.get_acquisition('test_timeseries1')
GetTimeseries1Manager ==
  /\ Linking("L219")
  /\ IF get_acquisition(nwbfile1, "test_timeseries1").kind # "KeyError"
     THEN /\ timeseries_1' = get_acquisition(nwbfile1, "test_timeseries1")
          /\ pc' = "L222"
          /\ UNCHANGED err
     ELSE /\ Fail("KeyError")
          /\ UNCHANGED timeseries_1
  /\ UNCHANGED <<script, fsvars, iovars, filevars, test_ts1, test_ts2, test_ts4,
                 test_ts5, timeseries_2, timeseries_1_data, envTouched, readvars>>

\* line 222 without the manager: io2 = NWBHDF5IO(filename2)
OpenRead2_OwnManager ==
  /\ Linking("L222")
  /\ IF CanOpen(filename2, DefaultMode)
     THEN /\ Construct(filename2, DefaultMode, 0)
          /\ io2' = Len(handles')
          /\ pc' = "L223"
          /\ UNCHANGED err
     ELSE /\ Fail("OSError")
          /\ UNCHANGED <<fsvars, handles, nManagers, io2>>
  /\ UNCHANGED <<script, io, io1, io3, io4, manager, filevars, tsvars,
                 envTouched, readvars>>

\* line 222: io2 = NWBHDF5IO(filename2, manager=manager)
OpenRead2Manager ==
  /\ Linking("L222")
  /\ IF CanOpen(filename2, DefaultMode)
     THEN /\ Construct(filename2, DefaultMode, manager)
          /\ io2' = Len(handles')
          /\ pc' = "L223"
          /\ UNCHANGED err
     ELSE /\ Fail("OSError")
          /\ UNCHANGED <<fsvars, handles, nManagers, io2>>
  /\ UNCHANGED <<script, io, io1, io3, io4, manager, filevars, tsvars, envTouched, readvars>>

\* line 223: nwbfile2 = io2.read()
Read2Manager ==
  /\ Linking("L223")
  /\ IF CanRead(io2)
     THEN /\ nwbfile2' = IORead(handles[io2])
          /\ pc' = "L224"
          /\ UNCHANGED err
     ELSE /\ Fail("MalformedFile")
          /\ UNCHANGED nwbfile2
  /\ UNCHANGED <<script, fsvars, iovars, nwbfile1, nwbfile3, nwbfile4, tsvars,
                 envTouched, readvars>>

\* line 224: timeseries_2 = nwbfile2.get_acquisition('test_timeseries2')
GetTimeseries2Manager ==
  /\ Linking("L224")
  /\ IF get_acquisition(nwbfile2, "test_timeseries2").kind # "KeyError"
     THEN /\ timeseries_2' = get_acquisition(nwbfile2, "test_timeseries2")
          /\ pc' = "L236"
          /\ UNCHANGED err
     ELSE /\ Fail("KeyError")
          /\ UNCHANGED timeseries_2
  /\ UNCHANGED <<script, fsvars, iovars, filevars, test_ts1, test_ts2, test_ts4,
                 test_ts5, timeseries_1, timeseries_1_data, envTouched, readvars>>

\* lines 236-242 adding the records built in memory, test_ts1 and test_ts2,
\* in place of the ones read from file1 and file2
CreateFile3_Copies ==
  /\ Linking("L236")
  /\ nwbfile3' = add_acquisition(add_acquisition(NWBFile("NWBE3"), test_ts1),
                                 test_ts2)
  /\ pc' = "L245"
  /\ UNCHANGED <<script, err, fsvars, iovars, nwbfile1, nwbfile2, nwbfile4,
                 tsvars, envTouched, readvars>>

\* lines 236-242: nwbfile3 = NWBFile(...); add timeseries_1, timeseries_2
CreateFile3 ==
  /\ Linking("L236")
  /\ nwbfile3' = add_acquisition(add_acquisition(NWBFile("NWBE3"), timeseries_1),
                                 timeseries_2)
  /\ pc' = "L245"
  /\ UNCHANGED <<script, err, fsvars, iovars, nwbfile1, nwbfile2, nwbfile4,
                 tsvars, envTouched, readvars>>

\* line 245 without the manager: io3 = NWBHDF5IO(filename3, 'w')
OpenWrite3_NoManager ==
  /\ Linking("L245")
  /\ Construct(filename3, "w", 0)
  /\ io3' = Len(handles')
  /\ pc' = "L246"
  /\ UNCHANGED <<script, err, io, io1, io2, io4, manager, filevars, tsvars,
                 envTouched, readvars>>

\* line 245: io3 = NWBHDF5IO(filename3, 'w', manager=manager)
OpenWrite3 ==
  /\ Linking("L245")
  /\ Construct(filename3, "w", manager)
  /\ io3' = Len(handles')
  /\ pc' = "L246"
  /\ UNCHANGED <<script, err, io, io1, io2, io4, manager, filevars, tsvars,
                 envTouched, readvars>>

\* line 246: io3.write(nwbfile3)
Write3 ==
  /\ Linking("L246")
  /\ WriteThrough(io3, nwbfile3, DefaultLinkData)
  /\ pc' = "L247"
  /\ UNCHANGED <<script, err, linkvars, envTouched, readvars>>

\* line 247: io3.close(), the last statement of the script
Close3 ==
  /\ Linking("L247")
  /\ CloseHandle(io3)
  /\ pc' = "done"
  /\ UNCHANGED <<script, err, fsvars, nManagers, io, io1, io2, io3, io4,
                 manager, filevars, tsvars, envTouched, readvars>>

\* ---------------------------------------------------------- environment
\* The files the script links to; another program may touch them once they
\* are on disk (lines 43-47: renamed, moved, access permissions changed).
SourceFiles == {filename1, filename2}

\* What another program may leave in a file it overwrites in place.
ForeignContents ==
  {[kind |-> "foreign"],
   [kind |-> "nwb", identifier |-> "OTHER", acquisition |-> NoAcquisition]}

\* The file at path p is renamed or moved away.
MoveFile(p) ==
  /\ script = "linking"
  /\ Exists(p)
  /\ dir' = [dir EXCEPT ![p] = 0]
  /\ envTouched' = <<envTouched[1] \cup {p}, envTouched[2]>>
  /\ UNCHANGED <<script, pc, err, disk, perm, linkvars, readvars>>

\* Read access to the file at path p is taken away.
RevokeAccess(p) ==
  /\ script = "linking"
  /\ Exists(p) /\ perm[dir[p]]
  /\ perm' = [perm EXCEPT ![dir[p]] = FALSE]
  /\ envTouched' = <<envTouched[1] \cup {p}, envTouched[2]>>
  /\ UNCHANGED <<script, pc, err, dir, disk, linkvars, readvars>>

\* The file at path p is overwritten in place.
ModifyFile(p, c) ==
  /\ script = "linking"
  /\ Exists(p) /\ disk[dir[p]] # c
  /\ disk' = [disk EXCEPT ![dir[p]] = c]
  /\ envTouched' = <<envTouched[1], envTouched[2] \cup {p}>>
  /\ UNCHANGED <<script, pc, err, dir, perm, linkvars, readvars>>

MovedOrLocked == envTouched[1]
Overwritten == envTouched[2]

\* --------------------------------------------------------- read_basics.py
before == 1
after == 3
frame_index == 31
NumUnitsShown == 3
NumLandscapesShown == 3

\* ------------------------------------------- the archive and its asset
\* The pixel values of frame i of the stored stimulus (one BGR pixel).
Frame(seed, i) == <<(seed + i) % 4, (seed + i + 1) % 4, (seed + i + 2) % 4>>

\* An asset: a stimulus OpticalSeries stored under `key` with nFrames frames
\* and one timestamp per frame, a units table and a trials table with one
\* row per frame.
MakeRemote(valid, key, nFrames, seed, stride, trains, catPeriod, shift) ==
  [valid |-> valid,
   stimulus |-> (key :>
      [data |-> [i \in 1..nFrames |-> Frame(seed, i)],
       timestamps |-> [i \in 1..nFrames |-> (i - 1) * stride]]),
   units |-> trains,
   trials |-> [i \in 1..nFrames |->
      [stim_on_time |-> (i - 1) * stride + shift,
       category_name |-> IF i % catPeriod = 0 THEN "landscapes" ELSE "houses"]]]

SeqsUpTo(S, n) == UNION {[1..k -> S] : k \in 0..n}
SpikeTrains == SeqsUpTo(0..MaxSpikeTime, MaxSpikes)
ReverseSeq(q) == [k \in 1..Len(q) |-> q[Len(q) + 1 - k]]
DefaultTrains == <<<<0, 3>>, <<>>, <<5, 2>>, <<1>>>>
StimulusKey == "StimulusPresentation"

\* The assets a run may meet: all spike trains of the bounded size, some
\* trial tables, and files the script cannot handle.
RemoteFiles ==
  {MakeRemote(TRUE, StimulusKey, NumFrames, 0, 1,
              <<a, ReverseSeq(a), [k \in 1..Len(a) |-> a[k] + 1]>>, 2, 0) :
     a \in SpikeTrains}
  \cup
  {MakeRemote(TRUE, StimulusKey, NumFrames, seed, stride, DefaultTrains, cp, 0) :
     seed \in {0, 1}, stride \in {0, 1, 4}, cp \in {1, 2, 16, NumFrames + 1}}
  \cup
  {MakeRemote(FALSE, StimulusKey, NumFrames, 0, 1, DefaultTrains, 2, 0),
   MakeRemote(TRUE, "Other", NumFrames, 0, 1, DefaultTrains, 2, 0),
   MakeRemote(TRUE, StimulusKey, ShortFrames, 0, 1, DefaultTrains, 2, 0),
   MakeRemote(TRUE, StimulusKey, NumFrames, 0, 1, <<<<0, 3>>, <<1>>>>, 2, 0),
   MakeRemote(TRUE, StimulusKey, NumFrames, 0, 1, DefaultTrains, 2, 1)}

\* --------------------------------------- the library: streaming and h5py
\* io.read() on the streamed file: the session object; every array in it is
\* a handle onto the file's dataset, no values are read.
IOReadRemote ==
  [kind |-> "NWBFile",
   stimulus |-> [n \in DOMAIN remote.stimulus |->
      [kind |-> "OpticalSeries", name |-> n,
       data |-> [kind |-> "dataset", obj |-> n, field |-> "data"],
       timestamps |-> [kind |-> "dataset", obj |-> n, field |-> "timestamps"]]],
   units |-> [kind |-> "table", name |-> "units"],
   trials |-> [kind |-> "table", name |-> "trials"]]

\* The stored array a dataset handle stands for.
StoredArray(d) == remote.stimulus[d.obj][d.field]

\* dataset[positions]: the values at the given (1-based) positions.
ReadAt(d, positions) ==
  [k \in 1..Len(positions) |-> StoredArray(d)[positions[k]]]

\* The positions of dataset[:], all of them in order.
AllPositions(d) == [k \in 1..Len(StoredArray(d)) |-> k]

\* The log entry of one read of values.
ReadEntry(d, positions) ==
  [obj |-> d.obj, field |-> d.field,
   positions |-> {positions[k] : k \in 1..Len(positions)}]

\* np.where(array == v): the positions that hold v, ascending.
Where(array, v) ==
  SelectSeq([k \in 1..Len(array) |-> k], LAMBDA k : array[k] = v)

\* image[..., ::-1]: the last dimension reversed.
ReverseLast(frame) == ReverseSeq(frame)

\* ---------------------------------------------------- read_basics.py steps
Reading(l) == script = "read_basics" /\ pc = l

\* line 103: with DandiAPIClient() as client
OpenClient ==
  /\ Reading("R103")
  /\ client' = "open"
  /\ pc' = "R104"
  /\ UNCHANGED <<script, err, fsvars, linkvars, envTouched, remote, network,
                 s3_path, nwbfile, stimulus_presentation, all_stimulus_data,
                 image, stim_on_times, unit, unit_spike_times, trial_spikes,
                 trials_df, stim_on_times_landscapes, shown, readLog>>

\* lines 104-105: asset = ...get_asset_by_path(filepath);
\* s3_path = asset.get_content_url(...).  An error leaves the with block,
\* which closes the client, and goes on to end the script.
GetContentUrl ==
  /\ Reading("R104")
  /\ IF network
     THEN /\ s3_path' = "s3://sub-P11HMH_ses-20061101_ecephys+image.nwb"
          /\ pc' = "R106"
          /\ UNCHANGED <<err, client>>
     ELSE /\ Fail("NetworkError")
          /\ client' = "closed"
          /\ UNCHANGED s3_path
  /\ UNCHANGED <<script, fsvars, linkvars, envTouched, remote, network,
                 nwbfile, stimulus_presentation, all_stimulus_data,
                 image, stim_on_times, unit, unit_spike_times, trial_spikes,
                 trials_df, stim_on_times_landscapes, shown, readLog>>

\* the end of the with block of line 103: the client is closed
CloseClient ==
  /\ Reading("R106")
  /\ client' = "closed"
  /\ pc' = "R122"
  /\ UNCHANGED <<script, err, fsvars, linkvars, envTouched, remote, network,
                 s3_path, nwbfile, stimulus_presentation, all_stimulus_data,
                 image, stim_on_times, unit, unit_spike_times, trial_spikes,
                 trials_df, stim_on_times_landscapes, shown, readLog>>

\* line 122: io = NWBHDF5IO(s3_path, mode="r", driver="ros3")
OpenRemote ==
  /\ Reading("R122")
  /\ IF network
     THEN /\ handles' = Append(handles,
             [path |-> s3_path, mode |-> "r", driver |-> "ros3", open |-> TRUE,
              inode |-> 0, manager |-> nManagers + 1])
          /\ nManagers' = nManagers + 1
          /\ io' = Len(handles')
          /\ pc' = "R123"
          /\ UNCHANGED err
     ELSE /\ Fail("NetworkError")
          /\ UNCHANGED <<handles, nManagers, io>>
  /\ UNCHANGED <<script, fsvars, io1, io2, io3, io4, manager, filevars, tsvars,
                 envTouched, readvars>>

\* line 123: nwbfile = io.read()
ReadRemote ==
  /\ Reading("R123")
  /\ IF ~network
     THEN Fail("NetworkError") /\ UNCHANGED nwbfile
     ELSE IF ~remote.valid
     THEN Fail("MalformedFile") /\ UNCHANGED nwbfile
     ELSE /\ nwbfile' = IOReadRemote
          /\ pc' = "R140"
          /\ UNCHANGED err
  /\ UNCHANGED <<script, fsvars, linkvars, envTouched, remote, network, client,
                 s3_path, stimulus_presentation, all_stimulus_data,
                 image, stim_on_times, unit, unit_spike_times, trial_spikes,
                 trials_df, stim_on_times_landscapes, shown, readLog>>

\* lines 132-140: nwbfile.stimulus; nwbfile.stimulus["StimulusPresentation"]
LookupStimulus ==
  /\ Reading("R140")
  /\ IF StimulusKey \in DOMAIN nwbfile.stimulus
     THEN pc' = "R171" /\ UNCHANGED err
     ELSE Fail("KeyError")
  /\ UNCHANGED <<script, fsvars, linkvars, envTouched, readvars>>

\* line 171: stimulus_presentation = nwbfile.stimulus["StimulusPresentation"]
BindStimulus ==
  /\ Reading("R171")
  /\ stimulus_presentation' = nwbfile.stimulus[StimulusKey]
  /\ pc' = "R172"
  /\ UNCHANGED <<script, err, fsvars, linkvars, envTouched, remote, network,
                 client, s3_path, nwbfile, all_stimulus_data,
                 image, stim_on_times, unit, unit_spike_times, trial_spikes,
                 trials_df, stim_on_times_landscapes, shown, readLog>>

\* line 172 with the error caught: on a network error the script goes on
\* with an empty array
ReadAllData_Swallow ==
  /\ Reading("R172")
  /\ all_stimulus_data' =
       IF network
       THEN ReadAt(stimulus_presentation.data,
                   AllPositions(stimulus_presentation.data))
       ELSE <<>>
  /\ readLog' = IF network
                THEN Append(readLog,
                       ReadEntry(stimulus_presentation.data,
                                 AllPositions(stimulus_presentation.data)))
                ELSE readLog
  /\ pc' = "R195"
  /\ UNCHANGED <<script, err, fsvars, linkvars, envTouched, remote, network,
                 client, s3_path, nwbfile, stimulus_presentation,
                 image, stim_on_times, unit, unit_spike_times, trial_spikes,
                 trials_df, stim_on_times_landscapes, shown>>

\* line 172: all_stimulus_data = stimulus_presentation.data[:]
\* (line 179, stimulus_presentation.data.shape, reads no values)
ReadAllData ==
  /\ Reading("R172")
  /\ IF network
     THEN /\ all_stimulus_data' =
               ReadAt(stimulus_presentation.data,
                      AllPositions(stimulus_presentation.data))
          /\ readLog' = Append(readLog,
               ReadEntry(stimulus_presentation.data,
                         AllPositions(stimulus_presentation.data)))
          /\ pc' = "R195"
          /\ UNCHANGED err
     ELSE /\ Fail("NetworkError")
          /\ UNCHANGED <<all_stimulus_data, readLog>>
  /\ UNCHANGED <<script, fsvars, linkvars, envTouched, remote, network,
                 client, s3_path, nwbfile, stimulus_presentation,
                 image, stim_on_times, unit, unit_spike_times, trial_spikes,
                 trials_df, stim_on_times_landscapes, shown>>

\* lines 195-199 reading everything first:
\* image = stimulus_presentation.data[:][frame_index]
ReadFrame_Eager ==
  /\ Reading("R195")
  /\ IF ~network
     THEN Fail("NetworkError") /\ UNCHANGED <<image, readLog>>
     ELSE IF frame_index >= Len(StoredArray(stimulus_presentation.data))
     THEN Fail("IndexError") /\ UNCHANGED <<image, readLog>>
     ELSE /\ image' = ReverseLast(
               ReadAt(stimulus_presentation.data,
                      AllPositions(stimulus_presentation.data))[frame_index + 1])
          /\ readLog' = Append(readLog,
               ReadEntry(stimulus_presentation.data,
                         AllPositions(stimulus_presentation.data)))
          /\ pc' = "R219"
          /\ UNCHANGED err
  /\ UNCHANGED <<script, fsvars, linkvars, envTouched, remote, network,
                 client, s3_path, nwbfile, stimulus_presentation,
                 all_stimulus_data, stim_on_times, unit, unit_spike_times,
                 trial_spikes, trials_df, stim_on_times_landscapes, shown>>

\* lines 195-199 reversing in place, written back through the dataset:
\* stimulus_presentation.data[frame_index] = image[..., ::-1]
ReadFrame_WriteBack ==
  /\ Reading("R195")
  /\ IF ~network
     THEN Fail("NetworkError") /\ UNCHANGED <<image, readLog, remote>>
     ELSE IF frame_index >= Len(StoredArray(stimulus_presentation.data))
     THEN Fail("IndexError") /\ UNCHANGED <<image, readLog, remote>>
     ELSE /\ image' = ReverseLast(
               ReadAt(stimulus_presentation.data, <<frame_index + 1>>)[1])
          /\ remote' = [remote EXCEPT
               !.stimulus[StimulusKey].data[frame_index + 1] = image']
          /\ readLog' = Append(readLog,
               ReadEntry(stimulus_presentation.data, <<frame_index + 1>>))
          /\ pc' = "R219"
          /\ UNCHANGED err
  /\ UNCHANGED <<script, fsvars, linkvars, envTouched, network,
                 client, s3_path, nwbfile, stimulus_presentation,
                 all_stimulus_data, stim_on_times, unit, unit_spike_times,
                 trial_spikes, trials_df, stim_on_times_landscapes, shown>>

\* lines 195-199: image = stimulus_presentation.data[frame_index];
\* image = image[..., ::-1]; plt.imshow(image)
ReadFrame ==
  /\ Reading("R195")
  /\ IF ~network
     THEN Fail("NetworkError") /\ UNCHANGED <<image, readLog>>
     ELSE IF frame_index >= Len(StoredArray(stimulus_presentation.data))
     THEN Fail("IndexError") /\ UNCHANGED <<image, readLog>>
     ELSE /\ image' = ReverseLast(
               ReadAt(stimulus_presentation.data, <<frame_index + 1>>)[1])
          /\ readLog' = Append(readLog,
               ReadEntry(stimulus_presentation.data, <<frame_index + 1>>))
          /\ pc' = "R219"
          /\ UNCHANGED err
  /\ UNCHANGED <<script, fsvars, linkvars, envTouched, remote, network,
                 client, s3_path, nwbfile, stimulus_presentation,
                 all_stimulus_data, stim_on_times, unit, unit_spike_times,
                 trial_spikes, trials_df, stim_on_times_landscapes, shown>>

\* lines 219-232: units = nwbfile.units; units_df = units.to_dataframe();
\* units["spike_times"][0]
ReadUnits ==
  /\ Reading("R219")
  /\ IF network
     THEN /\ readLog' = readLog \o
               <<[obj |-> "units", field |-> "spike_times",
                  positions |-> 1..Len(remote.units)],
                 [obj |-> "units", field |-> "spike_times", positions |-> {1}]>>
          /\ pc' = "R248"
          /\ UNCHANGED err
     ELSE /\ Fail("NetworkError")
          /\ UNCHANGED readLog
  /\ UNCHANGED <<script, fsvars, linkvars, envTouched, remote, network,
                 client, s3_path, nwbfile, stimulus_presentation,
                 all_stimulus_data, image, stim_on_times, unit, unit_spike_times,
                 trial_spikes, trials_df, stim_on_times_landscapes, shown>>

\* lines 248-252: before, after; stim_on_times = stimulus_presentation.timestamps[:]
ReadOnsets ==
  /\ Reading("R248")
  /\ IF network
     THEN /\ stim_on_times' =
               ReadAt(stimulus_presentation.timestamps,
                      AllPositions(stimulus_presentation.timestamps))
          /\ readLog' = Append(readLog,
               ReadEntry(stimulus_presentation.timestamps,
                         AllPositions(stimulus_presentation.timestamps)))
          /\ pc' = "R254"
          /\ UNCHANGED err
     ELSE /\ Fail("NetworkError")
          /\ UNCHANGED <<stim_on_times, readLog>>
  /\ UNCHANGED <<script, fsvars, linkvars, envTouched, remote, network,
                 client, s3_path, nwbfile, stimulus_presentation,
                 all_stimulus_data, image, unit, unit_spike_times,
                 trial_spikes, trials_df, stim_on_times_landscapes, shown>>

\* lines 261-263 with the bounds not strict:
\* (-before <= aligned_spikes) & (aligned_spikes <= after)
InWindow_Closed(x) == (-before <= x) /\ (x <= after)

\* lines 261-263: (-before < aligned_spikes) & (aligned_spikes < after)
InWindow(x) == (-before < x) /\ (x < after)

\* lines 259-263: aligned_spikes = unit_spike_times - time, then the mask
AlignedSpikes(spikes, time) ==
  SelectSeq([k \in 1..Len(spikes) |-> spikes[k] - time], InWindow)

\* lines 256-264: trial_spikes, one entry per stimulus onset time
TrialSpikes(spikes, onsets) ==
  [k \in 1..Len(onsets) |-> AlignedSpikes(spikes, onsets[k])]

\* lines 254-274: one pass of `for unit in range(3)`: the unit's spike times
\* are read, aligned to every onset time and plotted.
AlignUnit ==
  /\ Reading("R254")
  /\ unit' = unit + 1
  /\ IF ~network
     THEN Fail("NetworkError")
          /\ UNCHANGED <<unit_spike_times, trial_spikes, readLog>>
     ELSE IF unit' >= Len(remote.units)
     THEN Fail("IndexError")
          /\ UNCHANGED <<unit_spike_times, trial_spikes, readLog>>
     ELSE /\ unit_spike_times' = remote.units[unit' + 1]
          /\ readLog' = Append(readLog,
               [obj |-> "units", field |-> "spike_times",
                positions |-> {unit' + 1}])
          /\ trial_spikes' = TrialSpikes(unit_spike_times', stim_on_times)
          /\ pc' = IF unit' = NumUnitsShown - 1 THEN "R295" ELSE "R254"
          /\ UNCHANGED err
  /\ UNCHANGED <<script, fsvars, linkvars, envTouched, remote, network,
                 client, s3_path, nwbfile, stimulus_presentation,
                 all_stimulus_data, image, stim_on_times,
                 trials_df, stim_on_times_landscapes, shown>>

\* line 295: trials_df = nwbfile.trials.to_dataframe()
ReadTrials ==
  /\ Reading("R295")
  /\ IF network
     THEN /\ trials_df' = remote.trials
          /\ readLog' = Append(readLog,
               [obj |-> "trials", field |-> "rows",
                positions |-> 1..Len(remote.trials)])
          /\ pc' = "R302"
          /\ UNCHANGED err
     ELSE /\ Fail("NetworkError")
          /\ UNCHANGED <<trials_df, readLog>>
  /\ UNCHANGED <<script, fsvars, linkvars, envTouched, remote, network,
                 client, s3_path, nwbfile, stimulus_presentation,
                 all_stimulus_data, image, stim_on_times, unit, unit_spike_times,
                 trial_spikes, stim_on_times_landscapes, shown>>

\* line 302: assert np.all(stimulus_presentation.timestamps[:] ==
\*                         trials_df.stim_on_time[:])
AssertOneToOne ==
  /\ Reading("R302")
  /\ IF ~network
     THEN Fail("NetworkError") /\ UNCHANGED readLog
     ELSE /\ readLog' = Append(readLog,
               ReadEntry(stimulus_presentation.timestamps,
                         AllPositions(stimulus_presentation.timestamps)))
          /\ IF \A k \in 1..Len(trials_df) :
                  StoredArray(stimulus_presentation.timestamps)[k]
                    = trials_df[k].stim_on_time
             THEN pc' = "R307" /\ UNCHANGED err
             ELSE Fail("AssertionError")
  /\ UNCHANGED <<script, fsvars, linkvars, envTouched, remote, network,
                 client, s3_path, nwbfile, stimulus_presentation,
                 all_stimulus_data, image, stim_on_times, unit, unit_spike_times,
                 trial_spikes, trials_df, stim_on_times_landscapes, shown>>

\* trials_df[trials_df.category_name == "landscapes"].stim_on_time
LandscapeTimes(df) ==
  LET rows == SelectSeq(df, LAMBDA r : r.category_name = "landscapes")
  IN [k \in 1..Len(rows) |-> rows[k].stim_on_time]

\* line 310 without the slice: for time in stim_on_times_landscapes
FirstLandscapes_NoSlice(times) == times

\* stim_on_times_landscapes[:3]
FirstLandscapes(times) ==
  SubSeq(times, 1, IF Len(times) < NumLandscapesShown THEN Len(times)
                   ELSE NumLandscapesShown)

\* lines 307-309: stim_on_times_landscapes = trials_df[...].stim_on_time
SelectLandscapes ==
  /\ Reading("R307")
  /\ stim_on_times_landscapes' = LandscapeTimes(trials_df)
  /\ pc' = IF Len(FirstLandscapes(stim_on_times_landscapes')) = 0
           THEN "done" ELSE "R310"
  /\ UNCHANGED <<script, err, fsvars, linkvars, envTouched, remote, network,
                 client, s3_path, nwbfile, stimulus_presentation,
                 all_stimulus_data, image, stim_on_times, unit, unit_spike_times,
                 trial_spikes, trials_df, shown, readLog>>

\* np.squeeze(stack)[..., ::-1]: a stack of one frame is that frame; the last
\* dimension (the colour channels) is reversed.
SqueezeReversed(stack) ==
  IF Len(stack) = 1 THEN ReverseLast(stack[1])
  ELSE [k \in 1..Len(stack) |-> ReverseLast(stack[k])]

\* lines 310-319: one pass of `for time in stim_on_times_landscapes[:3]`
ShowLandscape ==
  /\ Reading("R310")
  /\ IF ~network
     THEN Fail("NetworkError") /\ UNCHANGED <<shown, readLog>>
     ELSE LET time == FirstLandscapes(stim_on_times_landscapes)[Len(shown) + 1]
              ts == stimulus_presentation.timestamps
              positions == Where(ReadAt(ts, AllPositions(ts)), time)
          IN /\ shown' = Append(shown,
                  SqueezeReversed(ReadAt(stimulus_presentation.data, positions)))
             /\ readLog' = readLog \o
                  <<ReadEntry(ts, AllPositions(ts)),
                    ReadEntry(stimulus_presentation.data, positions)>>
             /\ pc' = IF Len(shown')
                          < Len(FirstLandscapes(stim_on_times_landscapes))
                      THEN "R310" ELSE "done"
             /\ UNCHANGED err
  /\ UNCHANGED <<script, fsvars, linkvars, envTouched, remote, network,
                 client, s3_path, nwbfile, stimulus_presentation,
                 all_stimulus_data, image, stim_on_times, unit, unit_spike_times,
                 trial_spikes, trials_df, stim_on_times_landscapes>>

\* The connection to the archive is lost while the script runs.
NetworkDrop ==
  /\ script = "read_basics"
  /\ network
  /\ pc \notin {"done", "failed"}
  /\ network' = FALSE
  /\ UNCHANGED <<script, pc, err, fsvars, linkvars, envTouched, remote,
                 client, s3_path, nwbfile, stimulus_presentation,
                 all_stimulus_data, image, stim_on_times, unit, unit_spike_times,
                 trial_spikes, trials_df, stim_on_times_landscapes, shown,
                 readLog>>

\* ------------------------------------------------------- specification
vars == <<script, pc, err, fsvars, linkvars, envTouched, readvars>>

NoRemote == [valid |-> FALSE]

Init ==
  /\ \/ script = "linking" /\ pc = "L75" /\ remote = NoRemote
     \/ script = "read_basics" /\ pc = "R103" /\ remote \in RemoteFiles
  /\ err = NoError
  /\ dir = [p \in Filenames |-> 0]
  /\ disk = <<>>
  /\ perm = <<>>
  /\ handles = <<>>
  /\ nManagers = 0
  /\ io = 0 /\ io1 = 0 /\ io2 = 0 /\ io3 = 0 /\ io4 = 0
  /\ manager = 0
  /\ nwbfile1 = Unbound /\ nwbfile2 = Unbound
  /\ nwbfile3 = Unbound /\ nwbfile4 = Unbound
  /\ test_ts1 = Unbound /\ test_ts2 = Unbound
  /\ test_ts4 = Unbound /\ test_ts5 = Unbound
  /\ timeseries_1 = Unbound /\ timeseries_2 = Unbound
  /\ timeseries_1_data = Unbound
  /\ envTouched = <<{}, {}>>
  /\ network = TRUE
  /\ client = "unbound"
  /\ s3_path = ""
  /\ nwbfile = Unbound
  /\ stimulus_presentation = Unbound
  /\ all_stimulus_data = <<>>
  /\ image = <<>>
  /\ stim_on_times = <<>>
  /\ unit = -1
  /\ unit_spike_times = <<>>
  /\ trial_spikes = <<>>
  /\ trials_df = <<>>
  /\ stim_on_times_landscapes = <<>>
  /\ shown = <<>>
  /\ readLog = <<>>

LinkingStep ==
  \/ CreateFile1 \/ OpenWrite1 \/ Write1 \/ Close1
  \/ CreateFile2 \/ OpenWrite2 \/ Write2 \/ Close2
  \/ CreateFile4
  \/ OpenRead1 \/ Read1 \/ GetTimeseries1 \/ GetData1
  \/ CreateTs4 \/ CreateTs5
  \/ OpenWrite4 \/ Write4 \/ Close4
  \/ GetManager
  \/ OpenRead1Manager \/ Read1Manager \/ GetTimeseries1Manager
  \/ OpenRead2Manager \/ Read2Manager \/ GetTimeseries2Manager
  \/ CreateFile3
  \/ OpenWrite3 \/ Write3 \/ Close3

ReadingStep ==
  \/ OpenClient \/ GetContentUrl \/ CloseClient
  \/ OpenRemote \/ ReadRemote \/ LookupStimulus \/ BindStimulus
  \/ ReadAllData \/ ReadFrame \/ ReadUnits \/ ReadOnsets \/ AlignUnit
  \/ ReadTrials \/ AssertOneToOne \/ SelectLandscapes \/ ShowLandscape

Next ==
  \/ LinkingStep
  \/ ReadingStep
  \/ \E p \in SourceFiles : MoveFile(p)
  \/ \E p \in SourceFiles : RevokeAccess(p)
  \/ \E p \in SourceFiles : \E c \in ForeignContents : ModifyFile(p, c)
  \/ NetworkDrop

Spec == Init /\ [][Next]_vars

\* =================================================================== claims

\* The statements of linking_data.py that follow the given statement.
AfterRead1 == {"L137", "L138", "L147", "L164", "L178", "L179", "L181", "L203",
               "L217", "L218"}
AfterGet1 == AfterRead1 \ {"L137"}
AfterRead1Manager == {"L219", "L222", "L223", "L224", "L236", "L245", "L246",
                      "L247", "done"}
AfterRead2Manager == {"L224", "L236", "L245", "L246", "L247", "done"}

\* A record read back carries the name, the data and the timestamps of the
\* record that was added before the write.
SameRecord(read, added) ==
  /\ read.kind = "TimeSeries"
  /\ read.name = added.name
  /\ read.data.kind = "dataset"
  /\ ValuesOf(read.data) = ValuesOf(added.data)
  /\ ValuesOf(read.timestamps) = ValuesOf(added.timestamps)

\* Exactly the names in `added` can be retrieved from the session file f.
RetrievableNames(f, added) ==
  \A n \in Names : (get_acquisition(f, n).kind # "KeyError") <=> (n \in added)

\* C1: write/read round trip by name.  A record added to a session file
\* that was written and closed is returned by get_acquisition(name) after a
\* later open and read() of the same path, with the same data and
\* timestamps; no other name is retrievable.  (Checked while no other
\* program has overwritten the file.)
C1_RoundTrip ==
  script = "linking" =>
    /\ (pc \in AfterRead1 \cup AfterRead1Manager /\ filename1 \notin Overwritten)
         => RetrievableNames(nwbfile1, {test_ts1.name})
    /\ (pc \in AfterGet1 \cup (AfterRead1Manager \ {"L219"})
          /\ filename1 \notin Overwritten)
         => SameRecord(timeseries_1, test_ts1)
    /\ (pc \in AfterRead2Manager /\ filename2 \notin Overwritten)
         => RetrievableNames(nwbfile2, {test_ts2.name})
    /\ (pc \in AfterRead2Manager \ {"L224"} /\ filename2 \notin Overwritten)
         => SameRecord(timeseries_2, test_ts2)

\* C1 witness: both records have been read back from their files.
C1_Witness ==
  /\ script = "linking" /\ pc = "L236"
  /\ Overwritten = {}
  /\ SameRecord(timeseries_1, test_ts1)
  /\ SameRecord(timeseries_2, test_ts2)
  /\ ValuesOf(timeseries_1.data) = data.values

\* The contents of the file that now is at `path`.
FileAt(path) == disk[dir[path]]

AfterWrite4 == {"L181", "L203", "L217", "L218", "L219", "L222", "L223", "L224",
                "L236", "L245", "L246", "L247", "done"}
AfterWrite3 == {"L247", "done"}

\* The stored form of a whole-container external link.
ContainerLink(file, obj) == [kind |-> "extlink", file |-> file, obj |-> obj]

\* C2: linking whole containers.  Once file3 has been written, each of the
\* two records that were read from file1 and file2 is stored in file3 as an
\* external link and carries no data of its own; every link of file3 points
\* to another file: test_timeseries1 to file1, test_timeseries2 to file2.
C2_ContainerLinks ==
  (script = "linking" /\ pc \in AfterWrite3) =>
    /\ FileAt(filename3).kind = "nwb"
    /\ DOMAIN FileAt(filename3).acquisition
         = {"test_timeseries1", "test_timeseries2"}
    /\ FileAt(filename3).acquisition["test_timeseries1"]
         = ContainerLink(filename1, "test_timeseries1")
    /\ FileAt(filename3).acquisition["test_timeseries2"]
         = ContainerLink(filename2, "test_timeseries2")
    /\ \A n \in DOMAIN FileAt(filename3).acquisition :
         /\ FileAt(filename3).acquisition[n].kind = "extlink"
         /\ FileAt(filename3).acquisition[n].file # filename3

\* C2 witness: file3 is on disk with its two records, the script has ended.
C2_Witness ==
  /\ script = "linking" /\ pc = "done"
  /\ FileAt(filename3).kind = "nwb"
  /\ Cardinality(DOMAIN FileAt(filename3).acquisition) = 2
  /\ timeseries_1.origin.path = filename1
  /\ timeseries_2.origin.path = filename2

\* The stored form of a link to one dataset of another file.
DatasetLink(file, obj, field) ==
  [kind |-> "extlink", file |-> file, obj |-> obj, field |-> field]

\* C3: linking select datasets.  Once file4 has been written with
\* link_data=True, the data of test_timeseries4 (default given at write) and
\* of test_timeseries5 (H5DataIO wrapper) are both stored as a link to the
\* data of test_timeseries1 in file1, not as values, and the timestamps of
\* both are the caller's array, stored in file4 itself.
C3_DatasetLinks ==
  (script = "linking" /\ pc \in AfterWrite4) =>
    /\ FileAt(filename4).kind = "nwb"
    /\ DOMAIN FileAt(filename4).acquisition
         = {"test_timeseries4", "test_timeseries5"}
    /\ \A n \in {"test_timeseries4", "test_timeseries5"} :
         /\ FileAt(filename4).acquisition[n].kind = "group"
         /\ FileAt(filename4).acquisition[n].data
              = DatasetLink(filename1, "test_timeseries1", "data")
         /\ FileAt(filename4).acquisition[n].timestamps = timestamps

\* C3 witness: file4 has just been written from two records whose data is
\* the dataset handle read from file1, one bare and one wrapped.
C3_Witness ==
  /\ script = "linking" /\ pc = "L181"
  /\ test_ts4.data.kind = "dataset"
  /\ test_ts5.data.kind = "H5DataIO"
  /\ test_ts5.data.data = test_ts4.data
  /\ FileAt(filename4).kind = "nwb"

\* What a program that opens the file at `path` now and reads record n gets.
ReadRecordNow(path, n) ==
  ResolveObject(FileAt(path).acquisition[n], path, dir[path], 0)

\* What it gets for the data of record n.
ReadDataNow(path, n) ==
  DatasetHandle(FileAt(path).acquisition[n].data, path, dir[path], n, "data")

\* No other program has moved, locked or overwritten the file at `path`.
Untouched(path) == path \notin MovedOrLocked \cup Overwritten

\* The record read through a link is the target file's record.
TargetRecord(r, path, n) ==
  /\ r.kind = "TimeSeries"
  /\ r.name = n
  /\ r.origin.path = path
  /\ ValuesOf(r.data) = data.values
  /\ ValuesOf(r.timestamps) = timestamps.values

\* C4: external links are resolved at read time and can become stale.  For
\* the links of file3 (whole containers) and of file4 (datasets): once the
\* target file has been renamed, moved or made unreadable, reading the link
\* yields no record; while the target file is untouched, reading the link
\* yields the target's record; the linking file itself stays as written.
C4_StaleLinks ==
  /\ (script = "linking" /\ pc \in AfterWrite3) =>
       /\ FileAt(filename3) = IOWrite(handles[io3], nwbfile3, DefaultLinkData)
       /\ \A t \in {<<filename1, "test_timeseries1">>,
                    <<filename2, "test_timeseries2">>} :
            /\ ~Readable(t[1]) => ReadRecordNow(filename3, t[2]) = Invalid
            /\ Untouched(t[1])
                 => TargetRecord(ReadRecordNow(filename3, t[2]), t[1], t[2])
  /\ (script = "linking" /\ pc \in AfterWrite4) =>
       /\ FileAt(filename4) = IOWrite(handles[io4], nwbfile4, TRUE)
       /\ \A n \in {"test_timeseries4", "test_timeseries5"} :
            /\ ~Readable(filename1) => ReadDataNow(filename4, n) = Invalid
            /\ Untouched(filename1)
                 => ReadDataset(ReadDataNow(filename4, n)) = data.values

\* C4 witness: file3 was written with its links, afterwards file1 was moved
\* away and file2 was not touched: one link is stale, the other resolves.
C4_Witness ==
  /\ script = "linking" /\ pc = "done"
  /\ ~Exists(filename1) /\ Untouched(filename2)
  /\ ReadRecordNow(filename3, "test_timeseries1") = Invalid
  /\ ReadDataNow(filename4, "test_timeseries4") = Invalid
  /\ TargetRecord(ReadRecordNow(filename3, "test_timeseries2"), filename2,
                  "test_timeseries2")

\* The handles that are open.
OpenHandles == {k \in 1..Len(handles) : handles[k].open}

\* C5: every file handle that is opened (each NWBHDF5IO object and the
\* remote client) is closed by an explicit close step before the script
\* ends: no handle is open when the script has run to its end.
C5_AllClosedAtEnd ==
  pc = "done" => (OpenHandles = {} /\ client # "open")

\* The statements of either script that call the library and can fail.
StreamingSteps == {"R104", "R122", "R123", "R172", "R195", "R219", "R248",
                   "R254", "R295", "R302", "R310"}
LibraryErrors == {"OSError", "MalformedFile", "KeyError", "IndexError",
                  "NetworkError"}

\* What the script has bound, opened and produced so far.
scriptState == <<linkvars, s3_path, nwbfile, stimulus_presentation,
                 all_stimulus_data, image, stim_on_times, unit,
                 unit_spike_times, trial_spikes, trials_df,
                 stim_on_times_landscapes, shown, readLog>>

\* C6: failures propagate unmodified.  A step that fails ends the run at
\* that statement with the library's error; once the run has failed no
\* statement runs and the error is never replaced; a statement that needs
\* the archive never goes on to the next statement without it; and an error
\* is recorded only by ending the run.
C6_FailuresPropagate ==
  [][/\ (pc # "failed" /\ pc' = "failed")
          => (err'.at = pc /\ err = NoError
              /\ (err'.kind \in LibraryErrors \/ err'.at = "R302"))
     /\ pc = "failed" => (pc' = "failed" /\ err' = err /\ UNCHANGED scriptState)
     /\ (pc \in StreamingSteps /\ ~network /\ pc' # pc)
          => (pc' = "failed" /\ err'.kind = "NetworkError")
     /\ (pc' # "failed") => err' = NoError]_vars

\* C6 witness: the stimulus key is missing in the file that was read and the
\* run has ended at line 140 with the KeyError.
C6_Witness ==
  /\ script = "read_basics" /\ pc = "failed"
  /\ err = [kind |-> "KeyError", at |-> "R140"]
  /\ stimulus_presentation = Unbound /\ readLog = <<>>

\* The stimulus frames and timestamps as the archive stores them.
StoredFrames == remote.stimulus[StimulusKey].data
StoredTimestamps == remote.stimulus[StimulusKey].timestamps

\* One read of the stimulus data at exactly the given positions.
DataRead(positions) ==
  [obj |-> StimulusKey, field |-> "data", positions |-> positions]

\* C7: lazy loading of datasets.  After read(), and after the data attribute
\* has been taken, no data value has been read from the file and data is a
\* handle onto the file's dataset; data[:] reads the entire array;
\* data[frame_index] and data[positions] read the selected positions only;
\* each returns the values the full array has at those positions.
C7_LazyLoading ==
  script = "read_basics" =>
    /\ pc \in {"R140", "R171", "R172"} => readLog = <<>>
    /\ pc = "R172" => stimulus_presentation.data.kind = "dataset"
    /\ pc = "R195" =>
         /\ readLog = <<DataRead(1..Len(StoredFrames))>>
         /\ all_stimulus_data = StoredFrames
    /\ pc = "R219" =>
         /\ readLog = <<DataRead(1..Len(StoredFrames)),
                        DataRead({frame_index + 1})>>
         /\ image = ReverseLast(all_stimulus_data[frame_index + 1])
    /\ (pc \in {"R310", "done"} /\ Len(shown) > 0) =>
         LET time == stim_on_times_landscapes[Len(shown)]
             sel == {k \in 1..Len(StoredFrames) : StoredTimestamps[k] = time}
         IN /\ readLog[Len(readLog)] = DataRead(sel)
            /\ Cardinality(sel) = 1 =>
                 \E k \in sel :
                   shown[Len(shown)] = ReverseLast(all_stimulus_data[k])

\* C7 witness: the whole array and then one frame have been read.
C7_Witness ==
  /\ script = "read_basics" /\ pc = "R219"
  /\ Len(all_stimulus_data) = NumFrames
  /\ Len(readLog) = 2
  /\ readLog[2].positions = {frame_index + 1}
  /\ image # all_stimulus_data[frame_index + 1]

\* The positions of the spikes of train `spikes` that fall in the window
\* around onset time t, both bounds strict.
WindowPositions(spikes, t) ==
  {i \in 1..Len(spikes) : spikes[i] - t > -before /\ spikes[i] - t < after}

\* The j-th smallest element of a set of positions.
NthPosition(S, j) == CHOOSE i \in S : Cardinality({m \in S : m <= i}) = j

\* The entry the claim describes for onset time t: s - t for the spikes in
\* the window, in the order of the spike train.
WindowEntry(spikes, t) ==
  [j \in 1..Cardinality(WindowPositions(spikes, t)) |->
     spikes[NthPosition(WindowPositions(spikes, t), j)] - t]

\* C8: spike alignment around stimulus onset.  For each of the first three
\* units, trial_spikes has one entry per stimulus onset time, in the order of
\* the onset times; the entry for onset time t holds exactly the values
\* s - t of the unit's spike times s with -before < s - t < after, in the
\* order of the spike times, and is empty when no spike is in the window.
C8_SpikeAlignment ==
  script = "read_basics" =>
    /\ unit \in -1..(NumUnitsShown - 1)
    /\ (pc \in {"R295", "R302", "R307", "R310", "done"}) => unit = NumUnitsShown - 1
    /\ (unit >= 0 /\ ~(pc = "failed" /\ err.at = "R254")) =>
         /\ unit_spike_times = remote.units[unit + 1]
         /\ Len(trial_spikes) = Len(StoredTimestamps)
         /\ \A k \in 1..Len(StoredTimestamps) :
              /\ trial_spikes[k]
                   = WindowEntry(remote.units[unit + 1], StoredTimestamps[k])
              /\ (WindowPositions(remote.units[unit + 1], StoredTimestamps[k]) = {})
                   => trial_spikes[k] = <<>>

\* C8 witness: the third unit has been aligned; it has two spikes; one
\* entry keeps one spike and drops the other at s - t = -before, one keeps
\* one and drops the other at s - t = after, one entry is empty and one
\* holds both spikes.
C8_Witness ==
  /\ script = "read_basics" /\ pc = "R295" /\ unit = 2
  /\ Len(unit_spike_times) = 2
  /\ \E k \in 1..Len(trial_spikes) :
       /\ Len(trial_spikes[k]) = 1
       /\ \E i \in 1..2 : unit_spike_times[i] - stim_on_times[k] = -1
  /\ \E k \in 1..Len(trial_spikes) :
       /\ Len(trial_spikes[k]) = 1
       /\ \E i \in 1..2 : unit_spike_times[i] - stim_on_times[k] = 3
  /\ \E k \in 1..Len(trial_spikes) : trial_spikes[k] = <<>>
  /\ \E k \in 1..Len(trial_spikes) : Len(trial_spikes[k]) = 2

\* The IO objects that take part in linking whole containers are the ones
\* created after the four of the earlier sections (lines 88, 106, 135, 178).
NumEarlierHandles == 4
ContainerLinkingHandles == {k \in 1..Len(handles) : k > NumEarlierHandles}

\* C9: container linking uses one shared build manager.  Every IO object
\* of the container-linking section (the readers of file1 and file2, the
\* writer of file3) holds the manager that get_manager() returned, that
\* manager was obtained before the first of them was created.
C9_SharedManager ==
  script = "linking" =>
    /\ (manager = 0) => ContainerLinkingHandles = {}
    /\ \A k \in ContainerLinkingHandles :
         manager # 0 /\ handles[k].manager = manager
    /\ pc \in AfterRead1Manager \cup {"L218"} =>
         (io1 \in ContainerLinkingHandles /\ handles[io1].path = filename1)
    /\ pc \in AfterRead2Manager \cup {"L223"} =>
         (io2 \in ContainerLinkingHandles /\ handles[io2].path = filename2)
    /\ pc \in AfterWrite3 \cup {"L246"} =>
         (io3 \in ContainerLinkingHandles /\ handles[io3].path = filename3)

\* C9 witness: the three IO objects exist and share the manager.
C9_Witness ==
  /\ script = "linking" /\ pc = "L246"
  /\ ContainerLinkingHandles = {io1, io2, io3}
  /\ Cardinality({io1, io2, io3}) = 3
  /\ handles[io1].manager = manager
  /\ handles[io2].manager = manager
  /\ handles[io3].manager = manager

\* file1 and file2 have been written and their writing handles closed.
SourcesWritten ==
  pc \in {"L121", "L135", "L136", "L137", "L138", "L147", "L164", "L178",
          "L179"} \cup AfterWrite4

\* The file a writing handle created: its path entry, contents and access.
SourceFile(k) ==
  <<dir[handles[k].path], disk[handles[k].inode], perm[handles[k].inode]>>

\* C10: linking leaves the source files unchanged.  From the moment file1
\* and file2 have been written and closed, no statement of the script
\* (opening and reading them, building and writing file4 and file3)
\* changes the contents, the path or the access of file1 or file2.
C10_SourcesUnchanged ==
  [][(script = "linking" /\ SourcesWritten /\ pc' # pc)
       => (SourceFile(1)' = SourceFile(1) /\ SourceFile(2)' = SourceFile(2))]_vars

\* C10 witness: the script has ended, both linking files are written, and
\* file1 and file2 still hold the records written at lines 89 and 107.
C10_Witness ==
  /\ script = "linking" /\ pc = "done"
  /\ Untouched(filename1) /\ Untouched(filename2)
  /\ FileAt(filename1) = IOWrite(handles[1], add_acquisition(NWBFile("NWBE1"), test_ts1), DefaultLinkData)
  /\ FileAt(filename2) = IOWrite(handles[2], add_acquisition(NWBFile("NWBE2"), test_ts2), DefaultLinkData)
  /\ FileAt(filename3).kind = "nwb" /\ FileAt(filename4).kind = "nwb"

\* The rows of the stored trials table whose category is "landscapes".
LandscapeTrials ==
  {i \in 1..Len(remote.trials) : remote.trials[i].category_name = "landscapes"}

\* The positions of the stored stimulus whose timestamp is the onset time of
\* trial i.
FramesOfTrial(i) ==
  {k \in 1..Len(StoredFrames) :
     StoredTimestamps[k] = remote.trials[i].stim_on_time}

\* The stored timestamps are pairwise different.
TimestampsOneToOne ==
  \A a, b \in 1..Len(StoredTimestamps) :
    StoredTimestamps[a] = StoredTimestamps[b] => a = b

\* The smaller of two numbers.
Smaller(a, b) == IF a < b THEN a ELSE b

\* C11: landscape frame selection.  The script shows at most three images,
\* the j-th for the j-th trial (in trial order) whose category_name is
\* "landscapes"; the image is the stimulus frame (colour channels
\* reversed) at the positions whose timestamp equals that trial's
\* stim_on_time: exactly one frame when the timestamps are one-to-one, the
\* stack of all such frames in ascending position otherwise.  A run that
\* reaches the end has shown one image for each of the first three such
\* trials.
C11_LandscapeFrames ==
  script = "read_basics" =>
    /\ Len(shown) <= NumLandscapesShown
    /\ Len(shown) <= Cardinality(LandscapeTrials)
    /\ pc = "done" =>
         Len(shown) = Smaller(NumLandscapesShown, Cardinality(LandscapeTrials))
    /\ \A j \in 1..Len(shown) :
         LET i == NthPosition(LandscapeTrials, j)
             sel == FramesOfTrial(i)
         IN /\ sel # {}
            /\ Cardinality(sel) = 1 =>
                 shown[j] = ReverseLast(StoredFrames[NthPosition(sel, 1)])
            /\ Cardinality(sel) > 1 =>
                 shown[j] = [m \in 1..Cardinality(sel) |->
                               ReverseLast(StoredFrames[NthPosition(sel, m)])]
            /\ TimestampsOneToOne => Cardinality(sel) = 1

\* C11 witness: the file has more than three landscape trials, its
\* timestamps are one-to-one, the first trial is no landscape, and the run
\* has ended with three images, each a single frame.
C11_Witness ==
  /\ script = "read_basics" /\ pc = "done"
  /\ Cardinality(LandscapeTrials) > NumLandscapesShown
  /\ 1 \notin LandscapeTrials
  /\ TimestampsOneToOne
  /\ Len(shown) = NumLandscapesShown
  /\ shown[1] = ReverseLast(StoredFrames[2])
  /\ shown[3] = ReverseLast(StoredFrames[6])
  /\ shown[1] # StoredFrames[2]

\* The files the stored contents c link to, by whole records or by datasets.
LinkTargets(c) ==
  {c.acquisition[n].file :
     n \in {m \in DOMAIN c.acquisition : c.acquisition[m].kind = "extlink"}}
  \cup
  {c.acquisition[n].data.file :
     n \in {m \in DOMAIN c.acquisition :
              /\ c.acquisition[m].kind = "group"
              /\ c.acquisition[m].data.kind = "extlink"}}

\* Handle k is a reading handle on `path` that is open.
OpenReader(k, path) ==
  /\ k \in 1..Len(handles)
  /\ handles[k].open
  /\ handles[k].mode = DefaultMode
  /\ handles[k].path = path

\* The file at `path` has been written through a writing handle that is
\* closed by now.
WrittenAndClosed(path) ==
  \E w \in 1..Len(handles) :
    /\ handles[w].mode = "w"
    /\ handles[w].path = path
    /\ ~handles[w].open
    /\ disk[handles[w].inode] # EmptyFile

\* C12: write-before-read and link-target-open ordering in linking_data.py.
\* Whenever a handle opens file1 or file2 for reading, that file has been
\* written and its writing handle closed; and when file4 and then file3 is
\* written, the reading handle of every file it links to (io1 for file4;
\* io1 and io2 for file3) is open, before and after the write.
C12_Ordering ==
  [][script = "linking" =>
       /\ \A k \in 1..Len(handles') :
            (k > Len(handles) /\ handles'[k].mode = DefaultMode)
              => (handles'[k].path \in SourceFiles
                  /\ WrittenAndClosed(handles'[k].path))
       /\ (pc = "L179" /\ pc' # pc) =>
            /\ pc' = "L181"
            /\ OpenReader(io1, filename1) /\ OpenReader(io1, filename1)'
            /\ LinkTargets(FileAt(filename4))' = {filename1}
       /\ (pc = "L246" /\ pc' # pc) =>
            /\ pc' = "L247"
            /\ OpenReader(io1, filename1) /\ OpenReader(io1, filename1)'
            /\ OpenReader(io2, filename2) /\ OpenReader(io2, filename2)'
            /\ LinkTargets(FileAt(filename3))' = {filename1, filename2}]_vars

\* C12 witness: file3 has just been written with its two links while io1
\* and io2 are open, and the writing handles of file1 and file2 are closed.
C12_Witness ==
  /\ script = "linking" /\ pc = "L247"
  /\ LinkTargets(FileAt(filename3)) = {filename1, filename2}
  /\ LinkTargets(FileAt(filename4)) = {filename1}
  /\ OpenReader(io1, filename1) /\ OpenReader(io2, filename2)
  /\ io1 # io2
  /\ ~handles[1].open /\ ~handles[2].open
  /\ handles[io3].open

\* C13: read_basics.py is read-only.  The remote file is opened only in
\* mode "r" through the read-only driver "ros3"; no statement changes the
\* stored stimulus, units or trials, or any local file; reversing the last
\* dimension of the frame read at line 196 changes the script's image only:
\* the array read at line 172 and the stored frame stay as they were.
C13_ReadOnly ==
  [][script = "read_basics" =>
       /\ remote' = remote
       /\ UNCHANGED fsvars
       /\ \A k \in 1..Len(handles') :
            /\ handles'[k].mode = "r"
            /\ handles'[k].driver = "ros3"
            /\ handles'[k].path = s3_path'
       /\ pc # "R172" => all_stimulus_data' = all_stimulus_data
       /\ (pc = "R195" /\ pc' = "R219") =>
            /\ image' = ReverseLast(StoredFrames[frame_index + 1])
            /\ all_stimulus_data' = StoredFrames]_vars

\* C13 witness: the script has run to its end on a well-formed file: it has
\* read stimulus, units and trials, reversed a frame that is not its own
\* mirror image, and shown a landscape.
C13_Witness ==
  /\ script = "read_basics" /\ pc = "done"
  /\ remote.valid
  /\ handles[io].mode = "r" /\ handles[io].driver = "ros3"
  /\ image # StoredFrames[frame_index + 1]
  /\ all_stimulus_data = StoredFrames
  /\ Len(shown) > 0
  /\ \E k \in 1..Len(readLog) : readLog[k].obj = "units"
  /\ \E k \in 1..Len(readLog) : readLog[k].obj = "trials"

====
